---------------------------- MODULE Spec2Model ----------------------------
(***************************************************************************)
(* Round/turn engine of uno-agents: the Dealer of classes/dealer.py with   *)
(* the cards of classes/cards.py and the GeneralPlayer of                  *)
(* classes/player.py.                                                      *)
(*                                                                         *)
(* Lists are sequences (Python index i is TLA+ index i + 1).  The global   *)
(* generator behind random.shuffle is the variable rng: its initial state  *)
(* is unknown (drawn from 1..MaxSeed) and every shuffle advances it.       *)
(* secrets.choice is a free choice.                                        *)
(***************************************************************************)
EXTENDS Integers, Sequences, FiniteSets, TLC

(* ------------------------------ bounds -------------------------------- *)
\* initial states of the random generator that are explored
MaxSeed == 2
\* one more initial state of the generator: a game of ten players that starts
\* from it ends its first round with the winner at MAX_POINTS exactly
ExactSeed == 1466
\* rounds played per game before the exploration stops
MaxRounds == 4
\* moves of a round explored with players other than GeneralPlayer
MaxAnyMoves == 2
\* greatest hand index such a player selects
MaxAnyIndex == 3
\* rounds of a game played out to its end
MaxGameRounds == 45

(* ------------------------- game_constants.py -------------------------- *)
MAX_POINTS == 500
MIN_PLAYERS == 2
MAX_PLAYERS == 10
CARDS_IN_DECK == 108

(* ------------------------------ cards.py ------------------------------ *)
R == "red"
G == "green"
Y == "yellow"
B == "blue"
A == "any"
\* CardColor, in definition order
CardColor == <<R, G, Y, B, A>>

SKIP == "skip"
DRAW2 == "draw_two"
REV == "reverse"
WILD == "wild"
WILD4 == "wild_draw_four"
\* the values of CardType.N0 .. CardType.N9
Digits == <<"0", "1", "2", "3", "4", "5", "6", "7", "8", "9">>
CardType == <<SKIP, DRAW2, REV, WILD, WILD4>> \o Digits

\* Card(color=..., card_type=...)
Card(color, card_type) == [color |-> color, card_type |-> card_type]

\* int(card_type.value)
IntOf(s) == (CHOOSE i \in 1..Len(Digits) : Digits[i] = s) - 1

\* CardType(str(i))
NumberType(i) == Digits[i + 1]

\* a value that counts the WildDrawFour with the other action cards
ValueWildOnly(card) ==
    IF card.card_type = WILD THEN 50
    ELSE IF card.card_type \in {WILD4, SKIP, DRAW2, REV} THEN 20
    ELSE IntOf(card.card_type)

\* Card.value
Value(card) ==
    IF card.card_type \in {WILD, WILD4} THEN 50
    ELSE IF card.card_type \in {SKIP, DRAW2, REV} THEN 20
    ELSE IntOf(card.card_type)

\* Card.is_action
IsAction(card) == card.card_type \in {WILD, WILD4, SKIP, DRAW2, REV}

\* Hand(): an empty list with points 0
EmptyHand == [data |-> <<>>, points |-> 0]

\* Hand.append that counts the cards instead of their values
HandAppendCount(hand, card) ==
    [data |-> Append(hand.data, card), points |-> hand.points + 1]

\* Hand.append
HandAppend(hand, card) ==
    [data |-> Append(hand.data, card), points |-> hand.points + Value(card)]

\* list.pop(index) on the stored list: the list without position index
RemoveAt(s, index) ==
    [k \in 1..(Len(s) - 1) |-> IF k < index + 1 THEN s[k] ELSE s[k + 1]]

\* Hand.pop that leaves the cached points as they were
HandPopStale(hand, index) ==
    [card |-> hand.data[index + 1],
     hand |-> [data |-> RemoveAt(hand.data, index), points |-> hand.points]]

\* Hand.pop(index): the popped card and the hand that is left
HandPop(hand, index) ==
    LET card == hand.data[index + 1]
    IN [card |-> card,
        hand |-> [data |-> RemoveAt(hand.data, index),
                  points |-> hand.points - Value(card)]]

RECURSIVE Repeat(_, _)
\* s repeated k times
Repeat(s, k) == IF k = 0 THEN <<>> ELSE s \o Repeat(s, k - 1)

RECURSIVE NumberCards(_, _)
\* for i in range(i, 10): two cards of rank i
NumberCards(color, i) ==
    IF i > 9 THEN <<>>
    ELSE <<Card(color, NumberType(i)), Card(color, NumberType(i))>>
            \o NumberCards(color, i + 1)

\* the cards of one color with two cards of rank 0, as of every other rank
ColorCardsTwoZeros(color) ==
    IF color = A
    THEN Repeat(<<Card(color, WILD), Card(color, WILD4)>>, 4)
    ELSE NumberCards(color, 0)
            \o Repeat(<<Card(color, SKIP), Card(color, REV), Card(color, DRAW2)>>, 2)

\* the cards of one color with one number card of every rank: 40 number
\* cards in the deck
ColorCardsOneEach(color) ==
    IF color = A
    THEN Repeat(<<Card(color, WILD), Card(color, WILD4)>>, 4)
    ELSE [i \in 1..10 |-> Card(color, NumberType(i - 1))]
            \o Repeat(<<Card(color, SKIP), Card(color, REV), Card(color, DRAW2)>>, 2)

\* the cards init_deck appends for one color
ColorCards(color) ==
    IF color = A
    THEN Repeat(<<Card(color, WILD), Card(color, WILD4)>>, 4)
    ELSE <<Card(color, NumberType(0))>>
            \o NumberCards(color, 1)
            \o Repeat(<<Card(color, SKIP), Card(color, REV), Card(color, DRAW2)>>, 2)

RECURSIVE DeckFrom(_)
DeckFrom(c) ==
    IF c > Len(CardColor) THEN <<>> ELSE ColorCards(CardColor[c]) \o DeckFrom(c + 1)

\* init_deck()
init_deck == DeckFrom(1)

(* --------------------------- random.shuffle --------------------------- *)
\* one step of the generator
NextRandom(r) == (r * 75) % 65537

\* one pass of the loop of shuffle: j = randbelow(i + 1); swap x[i], x[j]
ShuffleStep(s, i) ==
    LET r2 == NextRandom(s.rng)
        j == r2 % (i + 1)
        x == s.list
    IN [list |-> [x EXCEPT ![i + 1] = x[j + 1], ![j + 1] = x[i + 1]], rng |-> r2]

RECURSIVE ShuffleRange(_, _, _)
\* the passes i = hi, hi - 1, ..., lo of "for i in reversed(range(1, len(x)))",
\* evaluated by halves, the upper half first (the test on upper has no other
\* purpose than this order: a list that is shuffled has two cards or more)
ShuffleRange(s, hi, lo) ==
    IF hi < lo THEN s
    ELSE IF hi = lo THEN ShuffleStep(s, hi)
    ELSE LET mid == (hi + lo) \div 2
             upper == ShuffleRange(s, hi, mid + 1)
         IN IF Len(upper.list) < 2 THEN upper ELSE ShuffleRange(upper, mid, lo)

\* shuffle(x) with the generator in state r
Shuffle(x, r) == ShuffleRange([list |-> x, rng |-> r], Len(x) - 1, 1)

(* ------------------------------ player.py ----------------------------- *)
\* GeneralPlayer(player_id): BasePlayer.__init__
GeneralPlayer(player_id) ==
    [player_id |-> player_id, cards |-> EmptyHand, points |-> 0]

\* play_card returning None
None == [color |-> "none", card_type |-> "none"]

\* the test of the loop of play_card
Playable(card, current_card) ==
    \/ card.color = A
    \/ card.color = current_card.color
    \/ card.card_type = current_card.card_type

\* a pass that takes a playable card of the same value as the one selected
\* before, so that the last of the most valuable cards is played
SelectStepLatest(sel, data, current_card, i) ==
    IF Playable(data[i], current_card) /\ Value(data[i]) >= sel.max_points
    THEN [max_points |-> Value(data[i]), selected_card_index |-> i - 1]
    ELSE sel

\* one pass over hand position i (Python index i - 1) of the loops of
\* play_card: a playable card of greater value than any before is selected
SelectStep(sel, data, current_card, i) ==
    IF Playable(data[i], current_card) /\ Value(data[i]) > sel.max_points
    THEN [max_points |-> Value(data[i]), selected_card_index |-> i - 1]
    ELSE sel

RECURSIVE SelectRange(_, _, _, _, _)
\* the passes lo, ..., hi of the loops of play_card, evaluated by halves, the
\* lower half first (the test on lower has no other purpose than this order:
\* an index is never below -1)
SelectRange(sel, data, current_card, lo, hi) ==
    IF hi < lo THEN sel
    ELSE IF hi = lo THEN SelectStep(sel, data, current_card, lo)
    ELSE LET mid == (hi + lo) \div 2
             lower == SelectRange(sel, data, current_card, lo, mid)
         IN IF lower.selected_card_index < -1 THEN lower
            ELSE SelectRange(lower, data, current_card, mid + 1, hi)

\* a player who finds no card to play, whatever the hand
NeverSelected(data, current_card) == -1

\* index of the card play_card selects, -1 when no card is playable
SelectedCardIndex(data, current_card) ==
    SelectRange([max_points |-> -1, selected_card_index |-> -1],
                data, current_card, 1, Len(data)).selected_card_index

\* colors_need[color]
ColorsNeed(data, color) == Cardinality({i \in 1..Len(data) : data[i].color = color})

\* max(colors_need.items(), key=lambda x: x[1]): the first color, in
\* insertion order R, G, Y, B, A, whose count is the greatest
ColorNeed(data) ==
    LET k == CHOOSE k \in 1..Len(CardColor) :
                /\ \A m \in 1..Len(CardColor) :
                      ColorsNeed(data, CardColor[m]) <= ColorsNeed(data, CardColor[k])
                /\ \A m \in 1..(k - 1) :
                      ColorsNeed(data, CardColor[m]) < ColorsNeed(data, CardColor[k])
    IN CardColor[k]

\* the colors choice([B, Y, G, R]) draws from
ChoiceColors == {B, Y, G, R}

\* a wild card that keeps the color Any when no color is held most
RecolorKeepAny(popped, color_need, pick) ==
    IF popped.card.card_type \in {WILD, WILD4}
    THEN [card |-> [popped.card EXCEPT !.color = color_need],
          hand |-> popped.hand,
          chose |-> color_need = A]
    ELSE [card |-> popped.card, hand |-> popped.hand, chose |-> FALSE]

\* play_card, lines 113-124: the popped card is returned, a wild one with the
\* color it is given; chose tells whether choice() was called
Recolor(popped, color_need, pick) ==
    IF popped.card.card_type \in {WILD, WILD4}
    THEN [card |-> [popped.card EXCEPT
                       !.color = IF color_need = A THEN pick ELSE color_need],
          hand |-> popped.hand,
          chose |-> color_need = A]
    ELSE [card |-> popped.card, hand |-> popped.hand, chose |-> FALSE]

\* play_card, lines 97-124, with the index the loops selected
PlaySelected(hand, selected_card_index, pick) ==
    IF selected_card_index = -1
    THEN [card |-> None, hand |-> hand, chose |-> FALSE]
    ELSE Recolor(HandPop(hand, selected_card_index), ColorNeed(hand.data), pick)

\* GeneralPlayer.play_card(current_card); pick is the result of choice()
PlayCard(hand, current_card, pick) ==
    PlaySelected(hand, SelectedCardIndex(hand.data, current_card), pick)

(* ------------------------------ dealer.py ----------------------------- *)
VARIABLES
    players,                \* Dealer.players: list of player objects
    number_of_players,      \* Dealer.number_of_players
    turn_direction,         \* Dealer.turn_direction
    round_start_index,      \* Dealer.round_start_index
    current_player_index,   \* Dealer.current_player_index
    draw_pile,              \* Dealer.draw_pile
    discard_pile,           \* Dealer.discard_pile
    has_winner,             \* Dealer.has_winner
    current_round,          \* Dealer.current_round
    current_move,           \* Dealer.current_move
    play_action_card,       \* the local play_action_card of play_round
    rng,                    \* state of the generator behind random.shuffle
    pc,                     \* position of the program in play_game / play_round
    error,                  \* the exception that ended the program, or "none"
    move                    \* what the last call of play_move did (observation)

vars == <<players, number_of_players, turn_direction, round_start_index,
          current_player_index, draw_pile, discard_pile, has_winner,
          current_round, current_move, play_action_card, rng, pc, error, move>>

\* nothing observed: no play_move call has been made in this round
NoMove == [branch |-> "none", active |-> None, offers |-> <<>>, drawn |-> 0,
           reshuffles |-> 0, partway |-> FALSE, played |-> None, chose |-> FALSE]

\* Dealer.top_card on a pile that is not empty
TopCard(pile) == pile[Len(pile)]

\* discard_pile[:-1]
AllButLast(pile) == SubSeq(pile, 1, Len(pile) - 1)

\* discard_pile[-1:]
LastOnly(pile) == IF Len(pile) = 0 THEN <<>> ELSE <<pile[Len(pile)]>>

\* a reset that passes over the WildDrawFour cards
ResetWildOnly(pile) ==
    [k \in 1..Len(pile) |->
        IF pile[k].card_type = WILD THEN [pile[k] EXCEPT !.color = A]
        ELSE pile[k]]

\* for card in pile: if card.card_type in {WILD, WILD4}: card.color = A
ResetWild(pile) ==
    [k \in 1..Len(pile) |->
        IF pile[k].card_type \in {WILD, WILD4} THEN [pile[k] EXCEPT !.color = A]
        ELSE pile[k]]

\* an empty draw pile that is not refilled
ReshuffleNothing(d) == [d EXCEPT !.reshuffles = @ + 1]

\* a reshuffle that resets the color of the wild card left on top as well
ReshuffleResetTop(d) ==
    LET sh == Shuffle(AllButLast(d.discard_pile), d.rng)
    IN [d EXCEPT !.draw_pile = ResetWild(sh.list),
                 !.discard_pile = ResetWild(LastOnly(d.discard_pile)),
                 !.rng = sh.rng,
                 !.reshuffles = @ + 1,
                 !.partway = d.drawn > 0]

\* a reshuffle that moves the top card too, and keeps it on the discard pile
ReshuffleWithTop(d) ==
    LET sh == Shuffle(d.discard_pile, d.rng)
    IN [d EXCEPT !.draw_pile = ResetWild(sh.list),
                 !.discard_pile = LastOnly(d.discard_pile),
                 !.rng = sh.rng,
                 !.reshuffles = @ + 1]

\* a reshuffle that takes the whole discard pile, its top card included
ReshuffleAll(d) ==
    LET sh == Shuffle(d.discard_pile, d.rng)
    IN [d EXCEPT !.draw_pile = ResetWild(sh.list),
                 !.discard_pile = <<>>,
                 !.rng = sh.rng,
                 !.reshuffles = @ + 1]

\* a reshuffle that leaves the wild cards the colors they were played with
ReshuffleKeepColor(d) ==
    LET sh == Shuffle(AllButLast(d.discard_pile), d.rng)
    IN [d EXCEPT !.draw_pile = sh.list,
                 !.discard_pile = LastOnly(d.discard_pile),
                 !.rng = sh.rng,
                 !.reshuffles = @ + 1]

\* the body of "if len(self.draw_pile) == 0" in draw_card; partway records
\* that the call had taken cards before
Reshuffle(d) ==
    LET sh == Shuffle(AllButLast(d.discard_pile), d.rng)
    IN [d EXCEPT !.draw_pile = ResetWild(sh.list),
                 !.discard_pile = LastOnly(d.discard_pile),
                 !.rng = sh.rng,
                 !.reshuffles = @ + 1,
                 !.partway = d.drawn > 0]

RECURSIVE TakeCards(_, _, _)
\* the cards of a draw that looks at the draw pile once, before the first card
TakeCards(d, p, number_of_cards) ==
    IF number_of_cards = 0 THEN d
    ELSE IF Len(d.draw_pile) = 0 THEN [d EXCEPT !.error = "IndexError"]
    ELSE TakeCards([d EXCEPT !.draw_pile = Tail(@),
                             !.players[p].cards = HandAppend(@, Head(d.draw_pile)),
                             !.drawn = @ + 1],
                   p, number_of_cards - 1)

\* a draw that reshuffles once per call, not once per card
DrawCardCheckOnce(d, p, number_of_cards) ==
    IF number_of_cards = 0 \/ d.error # "none" THEN d
    ELSE TakeCards(IF Len(d.draw_pile) = 0 THEN Reshuffle(d) ELSE d,
                   p, number_of_cards)

RECURSIVE DrawCard(_, _, _)
\* a draw whose cards go to the first player of the list
TakeCardToFirst(d, p, number_of_cards) ==
    IF Len(d.draw_pile) = 0
    THEN [d EXCEPT !.error = "IndexError"]
    ELSE DrawCard([d EXCEPT !.draw_pile = Tail(@),
                            !.players[1].cards = HandAppend(@, Head(d.draw_pile)),
                            !.drawn = @ + 1],
                  p, number_of_cards - 1)

\* draw_card, lines 161-166, and the passes of the loop that are left: pop(0)
\* of an empty draw pile raises IndexError and ends the call
TakeCard(d, p, number_of_cards) ==
    IF Len(d.draw_pile) = 0
    THEN [d EXCEPT !.error = "IndexError"]
    ELSE DrawCard([d EXCEPT !.draw_pile = Tail(@),
                            !.players[p].cards = HandAppend(@, Head(d.draw_pile)),
                            !.drawn = @ + 1],
                  p, number_of_cards - 1)

\* a draw that takes no card when it cannot take them all
DrawCardAtomic(d, p, number_of_cards) ==
    IF number_of_cards = 0 \/ d.error # "none" THEN d
    ELSE IF Len(d.draw_pile) + Len(d.discard_pile) - 1 < number_of_cards
    THEN [d EXCEPT !.error = "IndexError"]
    ELSE TakeCard(IF Len(d.draw_pile) = 0 THEN Reshuffle(d) ELSE d,
                  p, number_of_cards)

\* Dealer.draw_card(player, number_of_cards) for the player at position p
DrawCard(d, p, number_of_cards) ==
    IF number_of_cards = 0 \/ d.error # "none" THEN d
    ELSE TakeCard(IF Len(d.draw_pile) = 0 THEN Reshuffle(d) ELSE d,
                  p, number_of_cards)

\* placing a card with every action card returning True
PlaceCardAnyAction(d, card_to_play) ==
    IF card_to_play.card_type = REV
    THEN [d EXCEPT !.discard_pile = Append(@, card_to_play),
                   !.played = card_to_play,
                   !.turn_direction = @ * (-1),
                   !.ret = FALSE]
    ELSE [d EXCEPT !.discard_pile = Append(@, card_to_play),
                   !.played = card_to_play,
                   !.ret = IsAction(card_to_play)]

\* placing a card with a Wild that is left pending like a WildDrawFour
PlaceCardWildPending(d, card_to_play) ==
    IF card_to_play.card_type = REV
    THEN [d EXCEPT !.discard_pile = Append(@, card_to_play),
                   !.played = card_to_play,
                   !.turn_direction = @ * (-1),
                   !.ret = FALSE]
    ELSE [d EXCEPT !.discard_pile = Append(@, card_to_play),
                   !.played = card_to_play,
                   !.ret = card_to_play.card_type \in {SKIP, DRAW2, WILD4, WILD}]

\* placing a card with a Reverse that leaves the direction as it was
PlaceCardNoFlip(d, card_to_play) ==
    [d EXCEPT !.discard_pile = Append(@, card_to_play),
              !.played = card_to_play,
              !.ret = card_to_play.card_type \in {SKIP, DRAW2, WILD4}]

\* the part of play_move after "card_to_play = player.play_card(active_card)"
\* has returned a card: lines 218-231
PlaceCard(d, card_to_play) ==
    IF card_to_play.card_type = REV
    THEN [d EXCEPT !.discard_pile = Append(@, card_to_play),
                   !.played = card_to_play,
                   !.turn_direction = @ * (-1),
                   !.ret = FALSE]
    ELSE [d EXCEPT !.discard_pile = Append(@, card_to_play),
                   !.played = card_to_play,
                   !.ret = card_to_play.card_type \in {SKIP, DRAW2, WILD4}]

\* the answer of play_card taken over by the dealer: the hand that is left,
\* the card returned (field card) and the card that was shown
Answered(d, p, active_card, answer) ==
    [d EXCEPT !.players[p].cards = answer.hand,
              !.card = answer.card,
              !.offers = Append(@, active_card),
              !.chose = @ \/ answer.chose]

\* "card_to_play = player.play_card(active_card)" for the player at position p
AskPlayer(d, p, active_card, pick) ==
    Answered(d, p, active_card, PlayCard(d.players[p].cards, active_card, pick))

\* play_move, lines 210-231: no card after the second attempt ends the move,
\* a card is placed
SecondAttempt(d) ==
    IF d.card = None THEN [d EXCEPT !.ret = FALSE] ELSE PlaceCard(d, d.card)

\* play_move, line 208: the second attempt, made after the draw
AfterDraw(d, p, active_card, pick) ==
    IF d.error # "none" THEN d
    ELSE SecondAttempt(AskPlayer(d, p, active_card, pick))

\* a first attempt that is not followed by a second one
FirstAttemptOnly(d, p, active_card, pick) ==
    IF d.card # None THEN PlaceCard(d, d.card)
    ELSE [DrawCard(d, p, 1) EXCEPT !.ret = FALSE]

\* play_move, lines 199-231: a card returned at the first attempt is placed,
\* otherwise one card is drawn
FirstAttempt(d, p, active_card, pick) ==
    IF d.card # None THEN PlaceCard(d, d.card)
    ELSE AfterDraw(DrawCard(d, p, 1), p, active_card, pick)

\* the free-play part of play_move: lines 192-231
FreePlay(d, p, active_card, pick) ==
    FirstAttempt(AskPlayer([d EXCEPT !.branch = "play"], p, active_card, pick),
                 p, active_card, pick)

\* a skipped move that leaves the action pending
AbsorbSkipKeep(d) == [d EXCEPT !.ret = TRUE, !.branch = "skip"]

\* play_move, lines 175-177: the Skip on top applies to this player
AbsorbSkip(d) == [d EXCEPT !.ret = FALSE, !.branch = "skip"]

\* a DrawTwo that stays pending for the player after
AbsorbDraw2Keep(d, p) == [DrawCard(d, p, 2) EXCEPT !.ret = TRUE, !.branch = "draw2"]

\* play_move, lines 179-185: the DrawTwo on top applies to this player
AbsorbDraw2(d, p) == [DrawCard(d, p, 2) EXCEPT !.ret = FALSE, !.branch = "draw2"]

\* a WildDrawFour that costs two cards
AbsorbDraw4Two(d, p) == [DrawCard(d, p, 2) EXCEPT !.ret = FALSE, !.branch = "draw4"]

\* play_move, lines 187-190: the WildDrawFour on top applies to this player
AbsorbDraw4(d, p) == [DrawCard(d, p, 4) EXCEPT !.ret = FALSE, !.branch = "draw4"]

\* play_move, lines 175-231, with the card on top of the discard pile
PlayOn(d, p, action, pick, active_card) ==
    IF active_card.card_type = SKIP /\ action THEN AbsorbSkip(d)
    ELSE IF active_card.card_type = DRAW2 /\ action THEN AbsorbDraw2(d, p)
    ELSE IF active_card.card_type = WILD4 /\ action THEN AbsorbDraw4(d, p)
    ELSE FreePlay(d, p, active_card, pick)

\* Dealer.play_move(player, play_action_card) for the player at position p;
\* the field ret is the value returned; top_card on an empty discard pile
\* raises IndexError
PlayMoveOn(d, p, action, pick) ==
    IF Len(d.discard_pile) = 0 THEN [d EXCEPT !.error = "IndexError"]
    ELSE PlayOn([d EXCEPT !.active = TopCard(d.discard_pile)], p, action, pick,
                TopCard(d.discard_pile))

RECURSIVE DealPass(_, _, _)
\* "for j in range(self.number_of_players)": the front card goes to players[j]
DealPass(d, j, n) ==
    IF j = n \/ d.error # "none" THEN d
    ELSE IF Len(d.draw_pile) = 0 THEN [d EXCEPT !.error = "IndexError"]
    ELSE DealPass([d EXCEPT !.draw_pile = Tail(@),
                            !.players[j + 1].cards = HandAppend(@, Head(d.draw_pile))],
                  j + 1, n)

RECURSIVE GiveBlock(_, _, _)
\* the next count cards of the draw pile go to players[j]
GiveBlock(d, j, count) ==
    IF count = 0 \/ Len(d.draw_pile) = 0 THEN d
    ELSE GiveBlock([d EXCEPT !.draw_pile = Tail(@),
                             !.players[j].cards = HandAppend(@, Head(d.draw_pile))],
                   j, count - 1)

RECURSIVE DealBlocksFrom(_, _, _, _)
\* players[j], players[j+1], ... are given their cards one player after another
DealBlocksFrom(d, j, passes, n) ==
    IF j > n THEN d ELSE DealBlocksFrom(GiveBlock(d, j, passes), j + 1, passes, n)

\* a deal that gives a player all the cards before it turns to the next
DealBlocks(d, passes, n) == DealBlocksFrom(d, 1, passes, n)

RECURSIVE Deal(_, _, _)
\* "for _ in range(7)": the passes that are left
Deal(d, passes, n) ==
    IF passes = 0 \/ d.error # "none" THEN d
    ELSE Deal(DealPass(d, 0, n), passes - 1, n)

\* a first discard that takes the front card of the draw pile whatever it is
BurnOne(d) ==
    IF d.error # "none" THEN d
    ELSE IF Len(d.draw_pile) = 0 THEN [d EXCEPT !.error = "IndexError"]
    ELSE [d EXCEPT !.draw_pile = Tail(@),
                   !.discard_pile = Append(@, Head(d.draw_pile))]

RECURSIVE Burn(_)
\* the "while True" loop of init_round: move front cards to the discard pile
\* up to and including the first card that is not an action card
Burn(d) ==
    IF d.error # "none" THEN d
    ELSE IF Len(d.draw_pile) = 0 THEN [d EXCEPT !.error = "IndexError"]
    ELSE LET card == Head(d.draw_pile)
             d1 == [d EXCEPT !.draw_pile = Tail(@), !.discard_pile = Append(@, card)]
         IN IF ~IsAction(card) THEN d1 ELSE Burn(d1)

\* the dealer's piles, players and generator as one value, with the fields
\* that record what a call does
Dealer ==
    [draw_pile |-> draw_pile, discard_pile |-> discard_pile, players |-> players,
     turn_direction |-> turn_direction, rng |-> rng, error |-> "none",
     ret |-> FALSE, card |-> None, branch |-> "none", active |-> None,
     offers |-> <<>>, drawn |-> 0, reshuffles |-> 0, partway |-> FALSE,
     played |-> None, chose |-> FALSE]

\* the observation of a play_move call
Observed(d) ==
    [branch |-> d.branch, active |-> d.active, offers |-> d.offers,
     drawn |-> d.drawn, reshuffles |-> d.reshuffles, partway |-> d.partway,
     played |-> d.played, chose |-> d.chose]

\* a round that is won with one card left
RoundWonAtOne(hand) == Len(hand.data) <= 1

\* "len(player_to_move.cards) == 0", line 290
RoundWon(hand) == Len(hand.data) = 0

\* the next index with the sum made positive before the remainder is taken
NextPlayerIndexAbs(index, direction, n) ==
    (IF index + direction < 0 THEN -(index + direction) ELSE index + direction) % n

\* the next value of current_player_index, lines 308-310
NextPlayerIndex(index, direction, n) == (index + direction) % n

\* Dealer.__init__
Init ==
    /\ players = <<>>
    /\ number_of_players = 0
    /\ turn_direction = 1
    /\ round_start_index = -1
    /\ current_player_index = -1
    /\ draw_pile = init_deck
    /\ discard_pile = <<>>
    /\ has_winner = FALSE
    /\ current_round = 0
    /\ current_move = 0
    /\ play_action_card = FALSE
    /\ rng \in (1..MaxSeed) \cup {ExactSeed}
    /\ pc = "Setup"
    /\ error = "none"
    /\ move = NoMove

\* Dealer.add_player, called with a new GeneralPlayer
AddPlayer ==
    /\ pc = "Setup"
    /\ number_of_players < MAX_PLAYERS
    /\ players' = Append(players, GeneralPlayer(number_of_players))
    /\ number_of_players' = number_of_players + 1
    /\ UNCHANGED <<turn_direction, round_start_index, current_player_index,
                   draw_pile, discard_pile, has_winner, current_round,
                   current_move, play_action_card, rng, pc, error, move>>

\* Dealer.play_game up to the first test of its loop
PlayGame ==
    /\ pc = "Setup"
    /\ number_of_players >= MIN_PLAYERS
    /\ players' = Shuffle(players, rng).list
    /\ rng' = Shuffle(players, rng).rng
    /\ pc' = "GameLoop"
    /\ UNCHANGED <<number_of_players, turn_direction, round_start_index,
                   current_player_index, draw_pile, discard_pile, has_winner,
                   current_round, current_move, play_action_card, error, move>>

\* the dealer with the draw pile shuffled: sh is the result of shuffle
Shuffled(d, sh) == [d EXCEPT !.draw_pile = sh.list, !.rng = sh.rng]

\* init_round, lines 106-127: shuffle, deal, first discard
SetUp(d, n) ==
    Burn([Deal(Shuffled(d, Shuffle(d.draw_pile, d.rng)), 7, n)
          EXCEPT !.discard_pile = <<>>])

\* a round setup that lets the first player of the list make the first move
RoundStartsFirst(d, start) ==
    /\ round_start_index' = start
    /\ current_player_index' = 0
    /\ current_round' = current_round + 1
    /\ current_move' = 1
    /\ draw_pile' = d.draw_pile
    /\ discard_pile' = d.discard_pile
    /\ players' = d.players
    /\ rng' = d.rng
    /\ error' = d.error
    /\ pc' = IF d.error # "none" THEN "Crashed" ELSE "AwaitingMove"

\* the dealer after init_round, with the index of the player who starts
RoundStarts(d, start) ==
    /\ round_start_index' = start
    /\ current_player_index' = start
    /\ current_round' = current_round + 1
    /\ current_move' = 1
    /\ draw_pile' = d.draw_pile
    /\ discard_pile' = d.discard_pile
    /\ players' = d.players
    /\ rng' = d.rng
    /\ error' = d.error
    /\ pc' = IF d.error # "none" THEN "Crashed" ELSE "AwaitingMove"

\* a round setup that puts the direction of play back to +1
InitRoundResetDirection ==
    /\ pc = "GameLoop"
    /\ ~has_winner
    /\ current_round < MaxRounds
    /\ RoundStarts(SetUp(Dealer, number_of_players),
                   IF round_start_index = -1 THEN 0
                   ELSE (round_start_index + 1) % number_of_players)
    /\ play_action_card' = FALSE
    /\ move' = NoMove
    /\ turn_direction' = 1
    /\ UNCHANGED <<number_of_players, has_winner>>

\* a round that starts with the action flag the round before left
InitRoundKeepAction ==
    /\ pc = "GameLoop"
    /\ ~has_winner
    /\ current_round < MaxRounds
    /\ RoundStarts(SetUp(Dealer, number_of_players),
                   IF round_start_index = -1 THEN 0
                   ELSE (round_start_index + 1) % number_of_players)
    /\ move' = NoMove
    /\ UNCHANGED <<number_of_players, turn_direction, has_winner, play_action_card>>

\* Dealer.init_round, entered from play_round when the loop of play_game
\* finds no winner, and "play_action_card = False"
InitRound ==
    /\ pc = "GameLoop"
    /\ ~has_winner
    /\ current_round < MaxRounds
    /\ RoundStarts(SetUp(Dealer, number_of_players),
                   IF round_start_index = -1 THEN 0
                   ELSE (round_start_index + 1) % number_of_players)
    /\ play_action_card' = FALSE
    /\ move' = NoMove
    /\ UNCHANGED <<number_of_players, turn_direction, has_winner>>

\* a move after which the turn passes in the direction the move began with
MoveDoneOldDirection(d, p) ==
    /\ current_move' = current_move + 1
    /\ draw_pile' = d.draw_pile
    /\ discard_pile' = d.discard_pile
    /\ players' = d.players
    /\ turn_direction' = d.turn_direction
    /\ rng' = d.rng
    /\ error' = d.error
    /\ move' = Observed(d)
    /\ IF d.error # "none"
       THEN /\ pc' = "Crashed"
            /\ UNCHANGED <<play_action_card, current_player_index>>
       ELSE /\ play_action_card' = d.ret
            /\ IF RoundWon(d.players[p].cards)
               THEN /\ pc' = "RoundOver"
                    /\ UNCHANGED current_player_index
               ELSE /\ pc' = "AwaitingMove"
                    /\ current_player_index' =
                          NextPlayerIndex(current_player_index, turn_direction,
                                          number_of_players)

\* play_round, lines 284-310, with the dealer d after play_move for the
\* player at position p
MoveDone(d, p) ==
    /\ current_move' = current_move + 1
    /\ draw_pile' = d.draw_pile
    /\ discard_pile' = d.discard_pile
    /\ players' = d.players
    /\ turn_direction' = d.turn_direction
    /\ rng' = d.rng
    /\ error' = d.error
    /\ move' = Observed(d)
    /\ IF d.error # "none"
       THEN /\ pc' = "Crashed"
            /\ UNCHANGED <<play_action_card, current_player_index>>
       ELSE /\ play_action_card' = d.ret
            /\ IF RoundWon(d.players[p].cards)
               THEN /\ pc' = "RoundOver"
                    /\ UNCHANGED current_player_index
               ELSE /\ pc' = "AwaitingMove"
                    /\ current_player_index' =
                          NextPlayerIndex(current_player_index, d.turn_direction,
                                          number_of_players)

\* the move for every result of choice(), which is drawn only in a move that
\* calls it; withB is the move when choice() returns B
MoveChosen(withB, p) ==
    \E pick \in IF withB.chose THEN ChoiceColors ELSE {B} :
       MoveDone(IF pick = B THEN withB
                ELSE PlayMoveOn(Dealer, p, play_action_card, pick),
                p)

\* one iteration of the "while True" loop of play_round
PlayMove ==
    /\ pc = "AwaitingMove"
    /\ MoveChosen(PlayMoveOn(Dealer, current_player_index + 1, play_action_card, B),
                  current_player_index + 1)
    /\ UNCHANGED <<number_of_players, round_start_index, has_winner, current_round>>

RECURSIVE RoundPoints(_, _)
\* "for player in self.players: round_points += player.hand_points()"
RoundPoints(ps, k) ==
    IF k > Len(ps) THEN 0 ELSE ps[k].cards.points + RoundPoints(ps, k + 1)

\* scoring that takes more than MAX_POINTS for a win
CountPointsAbove(ps, w, winner_flag) ==
    [players |-> [ps EXCEPT ![w].points = @ + RoundPoints(ps, 1)],
     has_winner |-> IF ps[w].points + RoundPoints(ps, 1) > MAX_POINTS
                    THEN TRUE ELSE winner_flag]

\* play_round, lines 324-342, with the player at position w as round winner:
\* the players and has_winner afterwards
CountPointsOn(ps, w, winner_flag) ==
    [players |-> [ps EXCEPT ![w].points = @ + RoundPoints(ps, 1)],
     has_winner |-> IF ps[w].points + RoundPoints(ps, 1) >= MAX_POINTS
                    THEN TRUE ELSE winner_flag]

\* play_round from the end of its loop to the call of collect_cards
CountPoints ==
    /\ pc = "RoundOver"
    /\ players' = CountPointsOn(players, current_player_index + 1, has_winner).players
    /\ has_winner' =
          CountPointsOn(players, current_player_index + 1, has_winner).has_winner
    /\ pc' = "Scored"
    /\ UNCHANGED <<number_of_players, turn_direction, round_start_index,
                   current_player_index, draw_pile, discard_pile, current_round,
                   current_move, play_action_card, rng, error, move>>

RECURSIVE HandsOf(_, _)
\* the cards of players[k], players[k+1], ... in that order
HandsOf(ps, k) ==
    IF k > Len(ps) THEN <<>> ELSE ps[k].cards.data \o HandsOf(ps, k + 1)

\* a collection that leaves the wild cards the colors they were played with
CollectCardsKeepColor(draw, discard, ps) ==
    [draw_pile |-> draw \o discard \o HandsOf(ps, 1),
     players |-> [k \in 1..Len(ps) |-> [ps[k] EXCEPT !.cards = EmptyHand]]]

\* Dealer.collect_cards: the draw pile and the players afterwards
CollectCardsOn(draw, discard, ps) ==
    [draw_pile |-> ResetWild(draw \o discard \o HandsOf(ps, 1)),
     players |-> [k \in 1..Len(ps) |-> [ps[k] EXCEPT !.cards = EmptyHand]]]

\* the call of collect_cards that ends play_round
CollectCards ==
    /\ pc = "Scored"
    /\ draw_pile' = CollectCardsOn(draw_pile, discard_pile, players).draw_pile
    /\ players' = CollectCardsOn(draw_pile, discard_pile, players).players
    /\ discard_pile' = <<>>
    /\ pc' = "GameLoop"
    /\ UNCHANGED <<number_of_players, turn_direction, round_start_index,
                   current_player_index, has_winner, current_round, current_move,
                   play_action_card, rng, error, move>>

\* the loop of play_game ends: "while not self.has_winner" is false
EndGame ==
    /\ pc = "GameLoop"
    /\ has_winner
    /\ pc' = "Done"
    /\ UNCHANGED <<players, number_of_players, turn_direction, round_start_index,
                   current_player_index, draw_pile, discard_pile, has_winner,
                   current_round, current_move, play_action_card, rng, error, move>>

Next ==
    \/ AddPlayer
    \/ PlayGame
    \/ InitRound
    \/ PlayMove
    \/ CountPoints
    \/ CollectCards
    \/ EndGame

Spec == Init /\ [][Next]_vars

(* --------------------- dealer.py: games played out -------------------- *)
\* Dealer.init_round in a game of at most MaxGameRounds rounds
GameInitRound ==
    /\ pc = "GameLoop"
    /\ ~has_winner
    /\ current_round < MaxGameRounds
    /\ RoundStarts(SetUp(Dealer, number_of_players),
                   IF round_start_index = -1 THEN 0
                   ELSE (round_start_index + 1) % number_of_players)
    /\ play_action_card' = FALSE
    /\ move' = NoMove
    /\ UNCHANGED <<number_of_players, turn_direction, has_winner>>

GameNext ==
    \/ AddPlayer
    \/ PlayGame
    \/ GameInitRound
    \/ PlayMove
    \/ CountPoints
    \/ CollectCards
    \/ EndGame

\* ENABLED <<GameNext>>_vars, written out from the guards of the actions:
\* players can be added or the game started, a round can be set up or the
\* loop of play_game left, a move made, a round scored, the cards collected
GameCanStep ==
    \/ pc = "Setup"
    \/ pc = "GameLoop" /\ (has_winner \/ current_round < MaxGameRounds)
    \/ pc \in {"AwaitingMove", "RoundOver", "Scored"}

\* weak fairness of GameNext with its enabling condition written as
\* GameCanStep: the program is one thread that runs every statement it
\* reaches, so a step that can be taken is taken
GameFairness == []<>(~GameCanStep) \/ []<><<GameNext>>_vars

GameSpec == Init /\ [][GameNext]_vars /\ GameFairness

(* ------------------- dealer.py: top_card called alone ----------------- *)
\* Dealer.top_card(): discard_pile[-1]. The attribute discard_pile is first
\* assigned in init_round (bound tells whether it has been); the index -1 of
\* an empty list raises IndexError
TopCardCall(pile, bound) ==
    IF ~bound THEN [error |-> "AttributeError", card |-> None]
    ELSE IF Len(pile) = 0 THEN [error |-> "IndexError", card |-> None]
    ELSE [error |-> "none", card |-> pile[Len(pile)]]

\* a caller asks the dealer for the top card between two steps of the game
TopCardQuery ==
    /\ pc \in {"Setup", "GameLoop", "AwaitingMove"}
    /\ error' = TopCardCall(discard_pile, current_round > 0).error
    /\ move' = [NoMove EXCEPT
                   !.branch = "top_card",
                   !.active = TopCardCall(discard_pile, current_round > 0).card]
    /\ pc' = IF TopCardCall(discard_pile, current_round > 0).error # "none"
             THEN "Crashed" ELSE pc
    /\ UNCHANGED <<players, number_of_players, turn_direction, round_start_index,
                   current_player_index, draw_pile, discard_pile, has_winner,
                   current_round, current_move, play_action_card, rng>>

QueryNext ==
    \/ Next
    \/ TopCardQuery

\* the game with calls of top_card between its steps
QuerySpec == Init /\ [][QueryNext]_vars

(* ----------------- dealer.py with any BasePlayer subclass -------------- *)
\* the play_card of a BasePlayer subclass other than GeneralPlayer: it returns
\* the card at any index of its hand (index -1: None); a wild card is given
\* the color pick
AnyPlayCard(hand, index, pick) ==
    IF index = -1 \/ index >= Len(hand.data)
    THEN [card |-> None, hand |-> hand, chose |-> FALSE]
    ELSE Recolor(HandPop(hand, index), A, pick)

\* "card_to_play = player.play_card(active_card)" for such a player
AskAnyPlayer(d, p, active_card, index, pick) ==
    Answered(d, p, active_card, AnyPlayCard(d.players[p].cards, index, pick))

\* play_move, line 208, for such a player
AnyAfterDraw(d, p, active_card, index, pick) ==
    IF d.error # "none" THEN d
    ELSE SecondAttempt(AskAnyPlayer(d, p, active_card, index, pick))

\* play_move, lines 199-231, for such a player
AnyFirstAttempt(d, p, active_card, index, pick) ==
    IF d.card # None THEN PlaceCard(d, d.card)
    ELSE AnyAfterDraw(DrawCard(d, p, 1), p, active_card, index, pick)

\* play_move, lines 175-231, for such a player: first and second are the
\* indices its play_card selects at the first and at the second attempt
AnyPlayOn(d, p, action, first, second, pick, active_card) ==
    IF active_card.card_type = SKIP /\ action THEN AbsorbSkip(d)
    ELSE IF active_card.card_type = DRAW2 /\ action THEN AbsorbDraw2(d, p)
    ELSE IF active_card.card_type = WILD4 /\ action THEN AbsorbDraw4(d, p)
    ELSE AnyFirstAttempt(AskAnyPlayer([d EXCEPT !.branch = "play"], p,
                                      active_card, first, pick),
                         p, active_card, second, pick)

\* Dealer.play_move(player, play_action_card) for such a player
AnyPlayMoveOn(d, p, action, first, second, pick) ==
    IF Len(d.discard_pile) = 0 THEN [d EXCEPT !.error = "IndexError"]
    ELSE AnyPlayOn([d EXCEPT !.active = TopCard(d.discard_pile)], p, action,
                   first, second, pick, TopCard(d.discard_pile))

\* one iteration of the loop of play_round with such players, among the first
\* MaxAnyMoves moves of a round
AnyPlayMove ==
    /\ pc = "AwaitingMove"
    /\ current_move <= MaxAnyMoves
    /\ \E first \in -1..MaxAnyIndex, second \in -1..MaxAnyIndex,
          pick \in ChoiceColors :
          /\ first # -1 => second = -1
          /\ MoveDone(AnyPlayMoveOn(Dealer, current_player_index + 1,
                                    play_action_card, first, second, pick),
                      current_player_index + 1)
    /\ UNCHANGED <<number_of_players, round_start_index, has_winner, current_round>>

\* one iteration of the loop of play_round with players whose play_card
\* returns None whatever they hold
PassivePlayMove ==
    /\ pc = "AwaitingMove"
    /\ MoveDone(AnyPlayMoveOn(Dealer, current_player_index + 1,
                              play_action_card, -1, -1, B),
                current_player_index + 1)
    /\ UNCHANGED <<number_of_players, round_start_index, has_winner, current_round>>

\* the play_card of a BasePlayer subclass that keeps its cards and plays
\* penalty cards only: the index of the first WildDrawFour, or DrawTwo that
\* can be played on the active card, of the hand; -1 (None) without one
PenaltyIndex(data, current_card) ==
    LET penalty == {i \in 1..Len(data) :
                      \/ data[i].card_type = WILD4
                      \/ /\ data[i].card_type = DRAW2
                         /\ \/ data[i].color = current_card.color
                            \/ current_card.card_type = DRAW2}
    IN IF penalty = {} THEN -1
       ELSE (CHOOSE i \in penalty : \A j \in penalty : i <= j) - 1

\* one iteration of the loop of play_round with such players: asked first
\* they play a penalty card when they hold one, asked again after a draw
\* they return None; they call the color blue
HoardingPlayMove ==
    /\ pc = "AwaitingMove"
    /\ MoveDone(AnyPlayMoveOn(Dealer, current_player_index + 1, play_action_card,
                              PenaltyIndex(players[current_player_index + 1].cards.data,
                                           TopCard(discard_pile)),
                              -1, B),
                current_player_index + 1)
    /\ UNCHANGED <<number_of_players, round_start_index, has_winner, current_round>>

HoardingPlayerNext ==
    \/ AddPlayer
    \/ PlayGame
    \/ InitRound
    \/ HoardingPlayMove

\* the game played by players who play penalty cards and keep the others
HoardingPlayerSpec == Init /\ [][HoardingPlayerNext]_vars

PassivePlayerNext ==
    \/ AddPlayer
    \/ PlayGame
    \/ InitRound
    \/ PassivePlayMove

\* the game played by players who never play a card
PassivePlayerSpec == Init /\ [][PassivePlayerNext]_vars

AnyPlayerNext ==
    \/ AddPlayer
    \/ PlayGame
    \/ InitRound
    \/ AnyPlayMove

\* the game played by players of any BasePlayer subclass
AnyPlayerSpec == Init /\ [][AnyPlayerNext]_vars

(* ------------------------------ properties --------------------------- *)
\* position in players of the player to move
Mover == current_player_index + 1

RECURSIVE HandSizes(_, _)
\* number of cards held by players[k], players[k+1], ...
HandSizes(ps, k) ==
    IF k > Len(ps) THEN 0 ELSE Len(ps[k].cards.data) + HandSizes(ps, k + 1)

\* the cards in the draw pile, the discard pile and the hands
CardsInGame == Len(draw_pile) + Len(discard_pile) + HandSizes(players, 1)

RECURSIVE SumValues(_, _, _)
\* sum of the values of data[lo], ..., data[hi]
SumValues(data, lo, hi) ==
    IF hi < lo THEN 0
    ELSE IF hi = lo THEN Value(data[lo])
    ELSE LET mid == (lo + hi) \div 2
         IN SumValues(data, lo, mid) + SumValues(data, mid + 1, hi)

\* the value of the cards of a hand, counted card by card
HandValue(hand) == SumValues(hand.data, 1, Len(hand.data))

RECURSIVE OthersHandValue(_, _, _)
\* the value of the hands of players[k], players[k+1], ... without players[w]
OthersHandValue(ps, w, k) ==
    IF k > Len(ps) THEN 0
    ELSE (IF k = w THEN 0 ELSE HandValue(ps[k].cards)) + OthersHandValue(ps, w, k + 1)

\* a move starts that absorbs the action card on top of the discard pile
AbsorbStarts(kinds) ==
    /\ pc = "AwaitingMove"
    /\ play_action_card
    /\ TopCard(discard_pile).card_type \in kinds

\* the turn passes to the next player in the direction in force
TurnAdvances ==
    /\ pc' = "AwaitingMove"
    /\ current_player_index' =
          (current_player_index + turn_direction') % number_of_players

\* C1: after round setup, after every move (reshuffles included), after
\* scoring and after collection, the draw pile, the discard pile and the hands
\* hold 108 cards together.
CardConservation == pc # "Setup" => CardsInGame = CARDS_IN_DECK

\* a move has just reshuffled the discard pile into the draw pile
CardConservationWitness ==
    pc = "AwaitingMove" /\ move.reshuffles > 0 /\ Len(discard_pile) = 1

\* C2: a move ends the round exactly when it leaves the mover's hand empty;
\* then the turn index stays on the mover, the next step is the scoring with
\* the mover as winner and no further move; a move that does not end the round
\* leaves every hand non-empty.
RoundEndDetection ==
    [][/\ pc = "AwaitingMove" =>
             /\ (pc' = "RoundOver") = (Len(players'[Mover].cards.data) = 0)
             /\ pc' = "RoundOver" =>
                   /\ Len(players[Mover].cards.data) > 0
                   /\ current_player_index' = current_player_index
             /\ pc' = "AwaitingMove" =>
                   \A k \in 1..Len(players) : Len(players'[k].cards.data) > 0
       /\ pc = "RoundOver" =>
             /\ pc' = "Scored"
             /\ UNCHANGED <<current_move, current_player_index, draw_pile,
                            discard_pile, move>>
             /\ \A k \in 1..Len(players) :
                   /\ players'[k].cards = players[k].cards
                   /\ k # Mover => players'[k].points = players[k].points
      ]_vars

\* a round has just ended on a played card
RoundEndWitness ==
    /\ pc = "RoundOver"
    /\ move.played # None
    /\ Len(players[Mover].cards.data) = 0

\* C3: at the end of a round the winner's points grow by the value of the
\* cards the other players hold, the winner's own hand counts 0, and the
\* points of the other players stay.
RoundScoring ==
    [][pc = "RoundOver" =>
          /\ players[Mover].cards.points = 0
          /\ players'[Mover].points =
                players[Mover].points + OthersHandValue(players, Mover, 1)
          /\ \A k \in 1..Len(players) :
                k # Mover => players'[k].points = players[k].points
      ]_vars

\* the winner of a round has been given points for cards left in other hands
RoundScoringWitness ==
    /\ pc = "Scored"
    /\ OthersHandValue(players, Mover, 1) > 0
    /\ players[Mover].points >= OthersHandValue(players, Mover, 1)

\* C4: at the end of a round has_winner becomes true exactly when the round
\* winner's points are 500 or more; the game loop starts a round exactly when
\* has_winner is false and stops when it is true, after which nothing happens.
GameEnd ==
    [][/\ pc = "RoundOver" =>
             has_winner' = (players'[Mover].points >= MAX_POINTS)
       /\ pc = "GameLoop" =>
             /\ (current_round' = current_round + 1) = ~has_winner
             /\ (pc' = "Done") = has_winner
       /\ pc \notin {"RoundOver", "GameLoop"} => has_winner' = has_winner
       /\ pc # "Done"
      ]_vars

\* the game has ended with the winner of the last round at exactly 500 points
GameEndWitness ==
    pc = "Done" /\ has_winner /\ players[Mover].points = MAX_POINTS

\* C5: a move that starts on a pending Skip asks the player nothing, plays
\* and draws nothing, clears the pending action and passes the turn.
SkipAbsorption ==
    [][AbsorbStarts({SKIP}) =>
          /\ UNCHANGED <<players, draw_pile, discard_pile>>
          /\ move'.offers = <<>>
          /\ move'.drawn = 0
          /\ move'.played = None
          /\ play_action_card' = FALSE
          /\ TurnAdvances
      ]_vars

\* a player has just been skipped
SkipAbsorptionWitness ==
    pc = "AwaitingMove" /\ move.branch = "skip" /\ ~play_action_card

\* the cards a hand received in a move that drew k cards
Received(k) ==
    SubSeq(players'[Mover].cards.data,
           Len(players[Mover].cards.data) + 1,
           Len(players[Mover].cards.data) + k)

\* C6: a move that starts on a pending DrawTwo (WildDrawFour) adds exactly 2
\* (4) cards of the draw pile to the mover's hand, asks the player nothing,
\* places nothing on the discard pile, clears the pending action and passes
\* the turn.
PenaltyDraw ==
    [][AbsorbStarts({DRAW2, WILD4}) =>
          LET k == IF TopCard(discard_pile).card_type = DRAW2 THEN 2 ELSE 4
              held == players[Mover].cards.data
          IN /\ Len(players'[Mover].cards.data) = Len(held) + k
             /\ SubSeq(players'[Mover].cards.data, 1, Len(held)) = held
             /\ move'.drawn = k
             /\ IF Len(draw_pile) >= k
                THEN /\ Received(k) = SubSeq(draw_pile, 1, k)
                     /\ draw_pile' = SubSeq(draw_pile, k + 1, Len(draw_pile))
                     /\ discard_pile' = discard_pile
                ELSE /\ move'.reshuffles = 1
                     /\ discard_pile' = <<TopCard(discard_pile)>>
                     /\ Len(draw_pile') =
                           Len(draw_pile) + Len(discard_pile) - 1 - k
             /\ \A j \in 1..Len(players) : j # Mover => players'[j] = players[j]
             /\ move'.offers = <<>>
             /\ move'.played = None
             /\ play_action_card' = FALSE
             /\ TurnAdvances
      ]_vars

\* a player has just drawn four cards for a WildDrawFour
PenaltyDrawWitness ==
    /\ pc = "AwaitingMove"
    /\ move.branch = "draw4"
    /\ move.drawn = 4
    /\ move.active.card_type = WILD4

\* C7: in a move that absorbs nothing the player is asked with the active
\* card; a card returned at once is placed without a draw; otherwise exactly
\* one card is drawn and the player is asked once more with the same card;
\* a card returned becomes the top of the discard pile, and without one
\* nothing is placed and no action is pending.
FreePlayMove ==
    [][(pc = "AwaitingMove" /\ ~AbsorbStarts({SKIP, DRAW2, WILD4})) =>
          LET active == TopCard(discard_pile)
              held == Len(players[Mover].cards.data)
              now == Len(players'[Mover].cards.data)
          IN /\ Len(move'.offers) \in {1, 2}
             /\ \A i \in 1..Len(move'.offers) : move'.offers[i] = active
             /\ move'.drawn = Len(move'.offers) - 1
             /\ Len(move'.offers) = 1 => move'.played # None
             /\ IF move'.played # None
                THEN /\ TopCard(discard_pile') = move'.played
                     /\ discard_pile'[Len(discard_pile') - 1] = active
                     /\ now = held + move'.drawn - 1
                ELSE /\ TopCard(discard_pile') = active
                     /\ Len(discard_pile') =
                           (IF move'.reshuffles = 0 THEN Len(discard_pile) ELSE 1)
                     /\ now = held + 1
                     /\ play_action_card' = FALSE
                     /\ TurnAdvances
      ]_vars

\* a player has just drawn a card and passed
FreePlayWitness ==
    /\ pc = "AwaitingMove"
    /\ move.branch = "play"
    /\ Len(move.offers) = 2
    /\ move.drawn = 1
    /\ move.played = None

\* C8: after a move the action is pending exactly when the move played a
\* Skip, a DrawTwo or a WildDrawFour: not after a number card, a Wild or a
\* Reverse, and not after a move that played no card.
PendingActionRule ==
    [][(pc = "AwaitingMove" /\ pc' # "Crashed") =>
          play_action_card' =
             (/\ move'.played # None
              /\ move'.played.card_type \in {SKIP, DRAW2, WILD4})
      ]_vars

\* a WildDrawFour has just been played and is pending
PendingActionWitness ==
    /\ pc = "AwaitingMove"
    /\ move.played.card_type = WILD4
    /\ play_action_card

\* C9: turn_direction changes sign in a move that plays a Reverse and in no
\* other step.
DirectionRule ==
    [][turn_direction' =
          IF pc = "AwaitingMove" /\ move'.played.card_type = REV
          THEN -turn_direction ELSE turn_direction
      ]_vars

\* a Reverse has just turned the direction
DirectionWitness ==
    /\ pc = "AwaitingMove"
    /\ move.played.card_type = REV
    /\ turn_direction = -1

\* C10: after a move that does not end the round the turn index is the old
\* index plus the direction in force, wrapped into 0 .. number_of_players - 1.
TurnAdvance ==
    [][(pc = "AwaitingMove" /\ pc' = "AwaitingMove") =>
          LET t == current_player_index + turn_direction'
              n == number_of_players
          IN /\ current_player_index' =
                   (IF t < 0 THEN t + n ELSE IF t >= n THEN t - n ELSE t)
             /\ current_player_index' \in 0..(n - 1)
      ]_vars

\* the turn has just wrapped from index 0 to the last index of five players
TurnAdvanceWitness ==
    /\ pc = "AwaitingMove"
    /\ move.branch # "none"
    /\ number_of_players = 5
    /\ turn_direction = -1
    /\ current_player_index = 4

\* the rule of the spec for a card played on an active card; color is the
\* color the card had in the hand, which is Any for every wild card
PlayableAsHeld(card, active_card) ==
    \/ card.card_type \in {WILD, WILD4}
    \/ card.color = active_card.color
    \/ card.card_type = active_card.card_type

\* C11: every card a move places on the discard pile is playable on the
\* active card; a card the player returns against the rule is never placed
\* (the move fails instead).
PlayabilityEnforced ==
    [][(pc = "AwaitingMove" /\ move'.played # None) =>
          PlayableAsHeld(move'.played, TopCard(discard_pile))
      ]_vars

\* C12: a Wild or WildDrawFour that a move places on the discard pile has one
\* of the colors red, green, yellow, blue, and the active card at the start
\* of every move has one of these colors.
WildConcreteColor ==
    [][pc = "AwaitingMove" =>
          /\ TopCard(discard_pile).color \in ChoiceColors
          /\ (move'.played # None /\ move'.played.card_type \in {WILD, WILD4}) =>
                /\ move'.played.color \in ChoiceColors
                /\ TopCard(discard_pile') = move'.played
      ]_vars

\* a Wild has just been played by a player who holds no color most and was
\* given yellow by choice()
WildConcreteColorWitness ==
    /\ pc = "AwaitingMove"
    /\ move.played.card_type = WILD
    /\ move.chose
    /\ TopCard(discard_pile) = Card(Y, WILD)

\* the pile holds a Wild or WildDrawFour of a color other than Any
HoldsColoredWild(pile) ==
    \E k \in 1..Len(pile) :
       pile[k].card_type \in {WILD, WILD4} /\ pile[k].color # A

\* the pile holds a Wild or WildDrawFour
HoldsWild(pile) == \E k \in 1..Len(pile) : pile[k].card_type \in {WILD, WILD4}

\* C13: in every state, every Wild and WildDrawFour in the draw pile has the
\* color Any, also after the discard pile was reshuffled into the draw pile.
DrawPileWildsAny == ~HoldsColoredWild(draw_pile)

\* a move has just reshuffled wild cards from the discard pile into the draw
\* pile
DrawPileWildsAnyWitness ==
    /\ pc = "AwaitingMove"
    /\ move.reshuffles > 0
    /\ HoldsWild(draw_pile)

\* number of times the card occurs in the pile
Copies(pile, card) == Cardinality({k \in 1..Len(pile) : pile[k] = card})

\* the pile holds the cards of the deck, each as often as the deck
SameCards(pile, deck) ==
    /\ Len(pile) = Len(deck)
    /\ \A k \in 1..Len(deck) : Copies(pile, deck[k]) = Copies(deck, deck[k])

\* C14: after collect_cards the draw pile holds the 108 cards of the deck,
\* every wild card with the color Any, the discard pile is empty and every
\* hand is empty with 0 points.
CollectionPostcondition ==
    [][pc = "Scored" =>
          /\ pc' = "GameLoop"
          /\ Len(draw_pile') = CARDS_IN_DECK
          /\ SameCards(draw_pile', init_deck)
          /\ discard_pile' = <<>>
          /\ \A k \in 1..Len(players) :
                /\ players'[k].cards.data = <<>>
                /\ players'[k].cards.points = 0
      ]_vars

\* the cards have been collected after a round that left cards in the hands
\* of the losers
CollectionWitness ==
    /\ pc = "GameLoop"
    /\ current_round > 0
    /\ players[Mover].points > 0
    /\ move.played # None
    /\ SameCards(draw_pile, init_deck)
    /\ draw_pile # init_deck
    /\ discard_pile = <<>>

\* the card drawn in a move that drew one card: the card played after the
\* draw (no card held before was playable) or the last card of the hand
DrawnCard ==
    IF move'.played # None THEN ResetWild(<<move'.played>>)[1]
    ELSE players'[Mover].cards.data[Len(players'[Mover].cards.data)]

\* C15: a single card drawn when the draw pile is empty and the discard pile
\* is c1, ..., cN (N >= 2, cN on top) leaves cN alone on the discard pile; the
\* card drawn is one of c1, ..., c(N-1) and the draw pile holds the other
\* N - 2 of them (wild cards with their color reset to Any).
ReshuffleCorrect ==
    [][(/\ pc = "AwaitingMove"
        /\ Len(draw_pile) = 0
        /\ Len(discard_pile) >= 2
        /\ move'.branch = "play"
        /\ move'.drawn = 1) =>
          /\ move'.reshuffles = 1
          /\ discard_pile' =
                <<TopCard(discard_pile)>> \o
                (IF move'.played # None THEN <<move'.played>> ELSE <<>>)
          /\ Len(draw_pile') = Len(discard_pile) - 2
          /\ SameCards(draw_pile' \o <<DrawnCard>>,
                       ResetWild(AllButLast(discard_pile)))
      ]_vars

\* a player has just drawn one card from a reshuffled discard pile and passed
ReshuffleCorrectWitness ==
    /\ pc = "AwaitingMove"
    /\ move.branch = "play"
    /\ move.drawn = 1
    /\ move.reshuffles = 1
    /\ move.played = None
    /\ Len(discard_pile) = 1
    /\ Len(draw_pile) > 0

\* the number of cards the move asks draw_card for: 2 or 4 for a penalty, 1
\* when the player has no card to play at the first attempt, otherwise 0
Requested ==
    IF AbsorbStarts({DRAW2}) THEN 2
    ELSE IF AbsorbStarts({WILD4}) THEN 4
    ELSE IF AbsorbStarts({SKIP}) THEN 0
    ELSE IF SelectedCardIndex(players[Mover].cards.data, TopCard(discard_pile)) = -1
         THEN 1 ELSE 0

\* C16: a draw of n cards (n = 1, 2, 4) succeeds and appends exactly n cards
\* to the hand whenever the draw pile and the discard pile without its top
\* card hold n cards or more; a draw that empties the draw pile part-way goes
\* on with the reshuffled discard pile.
PerCardDraw ==
    [][(/\ pc = "AwaitingMove"
        /\ Requested > 0
        /\ Len(draw_pile) + Len(discard_pile) - 1 >= Requested) =>
          LET held == players[Mover].cards.data
              n == Requested
              now == players'[Mover].cards.data
              got == IF move'.played # None THEN <<DrawnCard>>
                     ELSE SubSeq(now, Len(held) + 1, Len(held) + n)
          IN /\ error' = "none"
             /\ move'.drawn = n
             /\ Len(now) = Len(held) + n - (IF move'.played # None THEN 1 ELSE 0)
             /\ move'.reshuffles = (IF Len(draw_pile) < n THEN 1 ELSE 0)
             /\ move'.partway = (Len(draw_pile) \in 1..(n - 1))
             /\ SameCards(got \o draw_pile',
                          IF Len(draw_pile) < n
                          THEN draw_pile \o ResetWild(AllButLast(discard_pile))
                          ELSE draw_pile)
             /\ Len(draw_pile) < n =>
                   SubSeq(got, 1, Len(draw_pile)) = draw_pile
      ]_vars

\* a penalty of four cards has just emptied the draw pile part-way and gone on
\* with the reshuffled discard pile
PerCardDrawWitness ==
    /\ pc = "AwaitingMove"
    /\ move.branch = "draw4"
    /\ move.drawn = 4
    /\ move.reshuffles = 1
    /\ move.partway

\* C17: a draw that finds the draw pile empty and only the top card on the
\* discard pile fails with DeckExhaustedError, not with the error of the
\* container.
ExhaustionError ==
    [][(/\ pc = "AwaitingMove"
        /\ Len(draw_pile) = 0
        /\ Len(discard_pile) = 1
        /\ move'.branch = "play"
        /\ move'.played = None) =>
          /\ pc' = "Crashed"
          /\ error' = "DeckExhaustedError"
      ]_vars

\* the cards a draw can still get: the draw pile and the discard pile without
\* its top card
Recoverable == Len(draw_pile) + Len(discard_pile) - 1

TopCardContract ==
    [][TopCardQuery =>
          /\ UNCHANGED <<draw_pile, discard_pile>>
          /\ IF Len(discard_pile) = 0
             THEN error' = "EmptyPileError"
             ELSE /\ error' = "none"
                  /\ move'.active = discard_pile[Len(discard_pile)]
      ]_vars

\* C20: in round r = 1, 2, ... of a game of n players round_start_index is
\* (r - 1) mod n, and the first move of the round is made by the player at
\* current_player_index = round_start_index.
RoundStartRotation ==
    [][/\ current_round' >= 1 =>
             round_start_index' = (current_round' - 1) % number_of_players'
       /\ (pc = "AwaitingMove" /\ move = NoMove) =>
             /\ current_player_index = round_start_index
             /\ \A k \in 1..Len(players) :
                   k # round_start_index + 1 => players'[k] = players[k]
      ]_vars

\* the third round of two players has started with the first player again,
\* whose move is the next
RoundStartRotationWitness ==
    /\ pc = "AwaitingMove"
    /\ move = NoMove
    /\ number_of_players = 2
    /\ current_round = 3
    /\ round_start_index = 0
    /\ current_player_index = 0

\* a step of the game that is the round setup
IsInitRound == pc = "GameLoop" /\ pc' = "AwaitingMove"

\* C21: after init_round with n players every hand holds 7 cards, the discard
\* pile holds k >= 1 cards, the top one a number card and the k - 1 below it
\* action cards, and the draw pile holds 108 - 7n - k cards.
RoundSetupPostcondition ==
    [][IsInitRound =>
          /\ \A j \in 1..number_of_players : Len(players'[j].cards.data) = 7
          /\ Len(discard_pile') >= 1
          /\ ~IsAction(TopCard(discard_pile'))
          /\ TopCard(discard_pile').card_type \in
                {NumberType(i) : i \in 0..9}
          /\ \A k \in 1..(Len(discard_pile') - 1) : IsAction(discard_pile'[k])
          /\ Len(draw_pile') =
                CARDS_IN_DECK - 7 * number_of_players - Len(discard_pile')
      ]_vars

\* a round of ten players has been set up with action cards under the first
\* number card of the discard pile
RoundSetupWitness ==
    /\ pc = "AwaitingMove"
    /\ move = NoMove
    /\ number_of_players = 10
    /\ Len(discard_pile) >= 2
    /\ Len(draw_pile) = CARDS_IN_DECK - 70 - Len(discard_pile)

\* C22: init_round deals one card per player per pass for 7 passes: with the
\* shuffled draw pile d[0], d[1], ... the player at position j receives
\* d[j], d[j+n], ..., d[j+6n], and the first card that goes to the discard
\* pile is d[7n].
DealingOrder ==
    [][IsInitRound =>
          LET d == Shuffle(draw_pile, rng).list
              n == number_of_players
          IN /\ \A j \in 0..(n - 1) :
                   players'[j + 1].cards.data =
                      [i \in 1..7 |-> d[j + (i - 1) * n + 1]]
             /\ discard_pile'[1] = d[7 * n + 1]
      ]_vars

\* the second round of three players has been dealt
DealingOrderWitness ==
    /\ pc = "AwaitingMove"
    /\ move = NoMove
    /\ number_of_players = 3
    /\ current_round = 2
    /\ Len(players[3].cards.data) = 7

\* C23: init_deck returns 108 cards: for each of the colors red, green,
\* yellow and blue one 0, two of each rank 1 to 9 and two of each of Skip,
\* Reverse and DrawTwo, and 4 Wild and 4 WildDrawFour of color Any. The
\* dealer's draw pile is this deck after construction.
DeckComposition ==
    pc = "Setup" =>
       /\ draw_pile = init_deck
       /\ Len(draw_pile) = CARDS_IN_DECK
       /\ \A color \in {R, G, Y, B} :
             /\ Copies(draw_pile, Card(color, NumberType(0))) = 1
             /\ \A i \in 1..9 : Copies(draw_pile, Card(color, NumberType(i))) = 2
             /\ \A kind \in {SKIP, REV, DRAW2} :
                   Copies(draw_pile, Card(color, kind)) = 2
       /\ Copies(draw_pile, Card(A, WILD)) = 4
       /\ Copies(draw_pile, Card(A, WILD4)) = 4
       /\ \A k \in 1..Len(draw_pile) :
             (draw_pile[k].color = A) = (draw_pile[k].card_type \in {WILD, WILD4})

\* the dealer has been constructed with the deck, red 0 in front and a
\* WildDrawFour at the end, and two players have been added
DeckCompositionWitness ==
    /\ pc = "Setup"
    /\ number_of_players = 2
    /\ draw_pile[1] = Card(R, NumberType(0))
    /\ draw_pile[CARDS_IN_DECK] = Card(A, WILD4)

\* the positions of the pile whose card has the value
WithValue(pile, value) == {k \in 1..Len(pile) : Value(pile[k]) = value}

\* the positions of the pile whose card is a number card
NumberCardsIn(pile) == {k \in 1..Len(pile) : ~IsAction(pile[k])}

\* C24 as claimed: in the deck 4 cards have the value 50, 24 cards the value
\* 20 (6 of each color) and the remaining 80 cards the value of their rank.
ValueCensusClaimed ==
    pc = "Setup" =>
       /\ Cardinality(WithValue(draw_pile, 50)) = 4
       /\ Cardinality(WithValue(draw_pile, 20)) = 24
       /\ Cardinality(NumberCardsIn(draw_pile)) = 80
       /\ \A k \in NumberCardsIn(draw_pile) :
             draw_pile[k].card_type = NumberType(Value(draw_pile[k]))

\* C24 amended: in the deck 8 cards (the wild cards) have the value 50, 24
\* cards (Skip, Reverse, DrawTwo, 6 of each color) the value 20 and the
\* remaining 76 cards the value of their rank.
ValueCensus ==
    pc = "Setup" =>
       /\ \A k \in 1..Len(draw_pile) :
             LET card == draw_pile[k]
             IN /\ card.card_type \in {WILD, WILD4} => Value(card) = 50
                /\ card.card_type \in {SKIP, DRAW2, REV} => Value(card) = 20
                /\ \A i \in 0..9 : card.card_type = NumberType(i) => Value(card) = i
       /\ Cardinality({k \in 1..Len(draw_pile) :
                          draw_pile[k].card_type \in {WILD, WILD4}}) = 8
       /\ \A color \in {R, G, Y, B} :
             Cardinality({k \in 1..Len(draw_pile) :
                             /\ draw_pile[k].color = color
                             /\ draw_pile[k].card_type \in {SKIP, DRAW2, REV}}) = 6
       /\ Cardinality(NumberCardsIn(draw_pile)) = 76
       /\ Cardinality(NumberCardsIn(draw_pile) \cap WithValue(draw_pile, 0)) = 4
       /\ \A i \in 1..9 :
             Cardinality(NumberCardsIn(draw_pile) \cap WithValue(draw_pile, i)) = 8

\* the dealer has been constructed with the deck: a card of value 0 in front,
\* a Skip of value 20 at position 20 and a card of value 50 at the end
ValueCensusWitness ==
    /\ pc = "Setup"
    /\ number_of_players = 0
    /\ Value(draw_pile[1]) = 0
    /\ draw_pile[20].card_type = SKIP
    /\ Value(draw_pile[20]) = 20
    /\ Value(draw_pile[CARDS_IN_DECK]) = 50

\* C25: in every state the cached points of every hand are the sum of the
\* values of the cards in it, after the appends of deal and draw, the pops
\* of play (a wild card being recolored) and the new hand of collection.
HandPointsCache ==
    \A k \in 1..Len(players) :
       players[k].cards.points = HandValue(players[k].cards)

\* a player has just drawn a Wild, played it with a color, and holds cards
\* worth their cached points
HandPointsCacheWitness ==
    /\ pc = "AwaitingMove"
    /\ move.drawn = 1
    /\ move.played.card_type = WILD
    /\ move.played.color # A
    /\ \E k \in 1..Len(players) :
          /\ players[k].cards.points > 0
          /\ players[k].cards.points = HandValue(players[k].cards)

AbsorbBranch(card_type) ==
    IF card_type = SKIP THEN "skip"
    ELSE IF card_type = DRAW2 THEN "draw2"
    ELSE "draw4"

\* C27: an action card is absorbed by exactly one player. A Skip, DrawTwo or
\* WildDrawFour just played is pending for the next player in turn; the move
\* that starts with an action pending is that player's, who is skipped or
\* draws and plays nothing, and it leaves nothing pending, the same card on
\* top and the turn with the player after; that player's move is free play
\* on the same active card.
SingleAbsorption ==
    [][pc = "AwaitingMove" =>
          /\ (move.played # None /\ move.played.card_type \in {SKIP, DRAW2, WILD4})
                => play_action_card
          /\ play_action_card =>
                /\ move.played = TopCard(discard_pile)
                /\ move'.branch = AbsorbBranch(TopCard(discard_pile).card_type)
                /\ move'.played = None
                /\ move'.offers = <<>>
                /\ move'.drawn = (IF move'.branch = "skip" THEN 0
                                  ELSE IF move'.branch = "draw2" THEN 2 ELSE 4)
                /\ ~play_action_card'
                /\ TopCard(discard_pile') = TopCard(discard_pile)
                /\ TurnAdvances
          /\ move.branch \in {"skip", "draw2", "draw4"} =>
                /\ ~play_action_card
                /\ TopCard(discard_pile) = move.active
                /\ move'.branch = "play"
                /\ Len(move'.offers) >= 1
                /\ move'.offers[1] = move.active
      ]_vars

\* a player has drawn two cards for a DrawTwo, and the player after is to move
\* with the DrawTwo still on top and nothing pending
SingleAbsorptionWitness ==
    /\ pc = "AwaitingMove"
    /\ move.branch = "draw2"
    /\ move.drawn = 2
    /\ ~play_action_card
    /\ TopCard(discard_pile).card_type = DRAW2

\* the card played in the last move is a Skip, DrawTwo or WildDrawFour
PlayedActionCard ==
    /\ move.played # None
    /\ move.played.card_type \in {SKIP, DRAW2, WILD4}

\* C28: the effect of an action card that empties the winner's hand reaches
\* no player. From the winning play to the next round setup no move is made
\* (nobody draws or is skipped), scoring counts the hands as the winning play
\* left them, and the first move of the next round starts with nothing
\* pending and is free play.
NoEffectPastWinner ==
    [][/\ (pc = "RoundOver" /\ PlayedActionCard) =>
             /\ play_action_card
             /\ pc' = "Scored"
             /\ UNCHANGED <<move, draw_pile, discard_pile, current_player_index>>
             /\ \A k \in 1..Len(players) : players'[k].cards = players[k].cards
             /\ players'[Mover].points =
                   players[Mover].points + OthersHandValue(players, Mover, 1)
       /\ (pc = "Scored" /\ PlayedActionCard) =>
             /\ pc' = "GameLoop"
             /\ UNCHANGED <<move, current_player_index>>
             /\ \A k \in 1..Len(players) : players'[k].points = players[k].points
       /\ (pc = "GameLoop" /\ PlayedActionCard) =>
             \/ pc' = "Done" /\ UNCHANGED <<move, players>>
             \/ IsInitRound
       /\ IsInitRound => (~play_action_card' /\ move' = NoMove)
       /\ (pc = "AwaitingMove" /\ move = NoMove) =>
             /\ ~play_action_card
             /\ move'.branch = "play"
             /\ move'.offers[1] = TopCard(discard_pile)
      ]_vars

\* a round won with an action card has been scored and its cards collected,
\* the flag of the action still set, and the next round is to be set up
NoEffectPastWinnerWitness ==
    /\ pc = "GameLoop"
    /\ ~has_winner
    /\ current_round < MaxRounds
    /\ PlayedActionCard
    /\ play_action_card

\* C29: at the end of round setup (init_round) current_move is 0, so that the
\* loop of play_round, which adds one before each move, numbers the first
\* move of the round 1.
MoveCounterAtSetup == [][IsInitRound => current_move' = 0]_vars

\* the positions of the cards of a hand that can be played on the active
\* card: color Any, the same color, or the same kind
PlayableCards(data, active_card) ==
    {i \in 1..Len(data) :
        \/ data[i].color = A
        \/ data[i].color = active_card.color
        \/ data[i].card_type = active_card.card_type}

\* r is a decision on the hand held: no card and the hand as it was when no
\* card is playable; otherwise the earliest of the playable cards of the
\* greatest value (a wild card with a color called), and the hand without it
DecisionOn(hand, active_card, r) ==
    IF PlayableCards(hand.data, active_card) = {}
    THEN r.card = None /\ r.hand = hand
    ELSE \E i \in PlayableCards(hand.data, active_card) :
            /\ \A k \in PlayableCards(hand.data, active_card) :
                  /\ Value(hand.data[k]) <= Value(hand.data[i])
                  /\ k < i => Value(hand.data[k]) < Value(hand.data[i])
            /\ r.card # None
            /\ r.card.card_type = hand.data[i].card_type
            /\ IF hand.data[i].card_type \in {WILD, WILD4}
               THEN r.card.color \in ChoiceColors
               ELSE r.card.color = hand.data[i].color
            /\ r.hand.data = RemoveAt(hand.data, i - 1)
            /\ Len(r.hand.data) = Len(hand.data) - 1

\* the position of the player who made the last move of a round that goes on
LastMover == ((current_player_index - turn_direction) % number_of_players) + 1

\* C30: GeneralPlayer.play_card returns no card exactly when no card of the
\* hand is playable on the active card, and leaves the hand as it was;
\* otherwise it takes out of the hand and returns one playable card of the
\* greatest value among the playable ones, the earliest in the hand when
\* several have that value, and leaves the other cards in place. This holds
\* of every hand held when a player is asked, for every result of choice(),
\* and of what the move of the player asked does.
DefaultDecision ==
    [][(pc = "AwaitingMove" /\ ~play_action_card) =>
          /\ \A k \in 1..Len(players), pick \in ChoiceColors :
                DecisionOn(players[k].cards, TopCard(discard_pile),
                           PlayCard(players[k].cards, TopCard(discard_pile), pick))
          /\ IF PlayableCards(players[Mover].cards.data, TopCard(discard_pile)) = {}
             THEN /\ move'.drawn = 1
                  /\ IF move'.played = None
                     THEN AllButLast(players'[Mover].cards.data) =
                             players[Mover].cards.data
                     ELSE players'[Mover].cards.data = players[Mover].cards.data
             ELSE /\ move'.drawn = 0
                  /\ DecisionOn(players[Mover].cards, TopCard(discard_pile),
                                [card |-> move'.played, hand |-> players'[Mover].cards])
      ]_vars

\* a player has played a card at once and still holds a playable card of the
\* same value: the card played was one of several of the greatest value
DefaultDecisionWitness ==
    /\ pc = "AwaitingMove"
    /\ move.branch = "play"
    /\ move.drawn = 0
    /\ move.played # None
    /\ \E i \in PlayableCards(players[LastMover].cards.data, move.active) :
          Value(players[LastMover].cards.data[i]) = Value(move.played)

\* C31: whenever a move starts with an action pending, the card on top of
\* the discard pile is a Skip, DrawTwo or WildDrawFour; such a move takes
\* the branch that absorbs the card and asks the player nothing.
PendingMeansActionOnTop ==
    [][(pc = "AwaitingMove" /\ play_action_card) =>
          /\ TopCard(discard_pile).card_type \in {SKIP, DRAW2, WILD4}
          /\ move'.branch \in {"skip", "draw2", "draw4"}
          /\ move'.offers = <<>>
          /\ move'.played = None
      ]_vars

\* a WildDrawFour with a color called is on top and pending for the mover
PendingMeansActionOnTopWitness ==
    /\ pc = "AwaitingMove"
    /\ play_action_card
    /\ TopCard(discard_pile).card_type = WILD4
    /\ TopCard(discard_pile).color # A
    /\ move.played = TopCard(discard_pile)

\* C32: from the end of round setup until the cards are collected the
\* discard pile is never empty (a reshuffle leaves its top card in place),
\* so top_card does not fail in the loop of play_round.
DiscardPileNeverEmpty ==
    /\ pc \in {"AwaitingMove", "RoundOver", "Scored"} => Len(discard_pile) >= 1
    /\ error = "none"

\* a penalty draw has reshuffled and left one card, the action card it
\* absorbed, on the discard pile
DiscardPileNeverEmptyWitness ==
    /\ pc = "AwaitingMove"
    /\ move.branch \in {"draw2", "draw4"}
    /\ move.reshuffles = 1
    /\ discard_pile = <<move.active>>

\* C33: every Wild or WildDrawFour held in a hand has the color Any: a wild
\* card has a color of its own only while it lies on the discard pile, and
\* the color is reset before the card can be dealt or drawn again.
HandWildsAny ==
    \A k \in 1..Len(players) : ~HoldsColoredWild(players[k].cards.data)

\* a penalty draw that reshuffled has put a wild card, of the color Any, at
\* the end of the hand of the player who drew
HandWildsAnyWitness ==
    /\ pc = "AwaitingMove"
    /\ move.branch \in {"draw2", "draw4"}
    /\ move.reshuffles = 1
    /\ TopCard(players[LastMover].cards.data).card_type \in {WILD, WILD4}
    /\ TopCard(players[LastMover].cards.data).color = A

\* the positions of the players with MAX_POINTS cumulative points or more
AtMaxPoints == {k \in 1..Len(players) : players[k].points >= MAX_POINTS}

\* C34: whenever a round starts every player's cumulative points are below
\* 500; the cumulative points of a player never decrease; when the game has
\* ended exactly one player has 500 points or more, and that player is the
\* winner of the last round played.
CumulativePoints ==
    [][/\ IsInitRound => AtMaxPoints = {}
       /\ pc # "Setup" =>
             \A k \in 1..Len(players) : players'[k].points >= players[k].points
       /\ pc' = "Done" => AtMaxPoints' = {current_player_index' + 1}
      ]_vars

\* a game of three rounds or more has ended: the winner of the last round
\* has 500 points or more and another player has points, fewer than 500
CumulativePointsWitness ==
    /\ pc = "Done"
    /\ current_round >= 3
    /\ players[Mover].points >= MAX_POINTS
    /\ \E k \in 1..Len(players) :
          k # Mover /\ players[k].points > 0 /\ players[k].points < MAX_POINTS

\* C35: turn_direction is always +1 or -1 and carries over between rounds:
\* scoring, collection and round setup leave it as the last move of the
\* round left it, so a round may start in the reversed direction.
DirectionCarriesOver ==
    [][/\ turn_direction \in {1, -1}
       /\ turn_direction' \in {1, -1}
       /\ pc \in {"RoundOver", "Scored", "GameLoop"} =>
             turn_direction' = turn_direction
      ]_vars

\* a round after the first has been set up with the direction reversed
DirectionCarriesOverWitness ==
    /\ pc = "AwaitingMove"
    /\ move = NoMove
    /\ current_round > 1
    /\ turn_direction = -1

\* the numbers of cards play_move asks draw_card for
DrawSizes == {1, 2, 4}

\* C36: a draw never changes the active card. A draw_card call of 1, 2 or 4
\* cards that succeeds, made for the mover in any state in which a move
\* starts, leaves the same card of the same color on top of the discard
\* pile, reshuffle or not; and in every move that draws, the card that was
\* on top is on top afterwards, or lies right under the card the move played.
DrawKeepsActiveCard ==
    [][pc = "AwaitingMove" =>
          /\ \A n \in DrawSizes :
                DrawCard(Dealer, Mover, n).error = "none" =>
                   TopCard(DrawCard(Dealer, Mover, n).discard_pile) =
                      TopCard(discard_pile)
          /\ (move'.drawn > 0 /\ move'.played = None) =>
                TopCard(discard_pile') = TopCard(discard_pile)
          /\ (move'.drawn > 0 /\ move'.played # None) =>
                AllButLast(discard_pile')[Len(discard_pile') - 1] =
                   TopCard(discard_pile)
          /\ (move'.reshuffles > 0 /\ move'.played = None) =>
                discard_pile' = <<TopCard(discard_pile)>>
      ]_vars

\* a draw has reshuffled under a wild card with a color called: the card is
\* on top with its color, and a wild card went to the draw pile
DrawKeepsActiveCardWitness ==
    /\ pc = "AwaitingMove"
    /\ move.reshuffles = 1
    /\ move.played = None
    /\ TopCard(discard_pile).card_type \in {WILD, WILD4}
    /\ TopCard(discard_pile).color \in ChoiceColors
    /\ TopCard(discard_pile) = move.active
    /\ HoldsWild(draw_pile)

\* C37: a draw of several cards that runs out of cards part-way is not
\* atomic. When a penalty draw fails, the cards it took before (every card
\* of the draw pile and of the discard pile under its top card, fewer than
\* asked for) are in the hand of the player, after the cards held; the draw
\* pile is empty, the discard pile holds its top card only, the other hands
\* are as they were, and the cards are still 108 in all.
PartialDrawKept ==
    [][(/\ pc = "AwaitingMove"
        /\ pc' = "Crashed"
        /\ move'.branch \in {"draw2", "draw4"}) =>
          /\ move'.drawn < (IF move'.branch = "draw2" THEN 2 ELSE 4)
          /\ move'.drawn = Recoverable
          /\ Len(players'[Mover].cards.data) =
                Len(players[Mover].cards.data) + move'.drawn
          /\ SubSeq(players'[Mover].cards.data, 1, Len(players[Mover].cards.data)) =
                players[Mover].cards.data
          /\ \A c \in {draw_pile[i] : i \in 1..Len(draw_pile)}
                    \cup {discard_pile[i] : i \in 1..(Len(discard_pile) - 1)} :
                Copies(players'[Mover].cards.data, ResetWild(<<c>>)[1]) =
                   Copies(players[Mover].cards.data, ResetWild(<<c>>)[1])
                   + Copies(ResetWild(draw_pile), ResetWild(<<c>>)[1])
                   + Copies(ResetWild(AllButLast(discard_pile)), ResetWild(<<c>>)[1])
          /\ draw_pile' = <<>>
          /\ discard_pile' = <<TopCard(discard_pile)>>
          /\ \A k \in 1..Len(players) : k # Mover => players'[k] = players[k]
          /\ CardsInGame' = CARDS_IN_DECK
          /\ current_player_index' = current_player_index
      ]_vars

\* a draw of four cards has failed after three: the player holds them, the
\* draw pile is empty and the WildDrawFour alone is on the discard pile
PartialDrawKeptWitness ==
    /\ pc = "Crashed"
    /\ move.branch = "draw4"
    /\ move.drawn = 3
    /\ draw_pile = <<>>
    /\ Len(discard_pile) = 1
    /\ CardsInGame = CARDS_IN_DECK

\* C38: round setup never runs out of cards with 2 to 10 players. The pile
\* it starts from holds more number cards than the deal hands out to ten
\* players, so that a number card is left after the deal whatever the
\* shuffle; the deal and the moves to the discard pile succeed, and the
\* cards not dealt hold a number card.
SetupNeverUnderflows ==
    [][(pc = "GameLoop" /\ ~has_winner /\ pc' # pc) =>
          /\ number_of_players \in MIN_PLAYERS..MAX_PLAYERS
          /\ \A n \in MIN_PLAYERS..MAX_PLAYERS :
                /\ Cardinality(NumberCardsIn(draw_pile)) > 7 * n
                /\ Len(draw_pile) > 7 * n
          /\ pc' = "AwaitingMove"
          /\ error' = "none"
          /\ NumberCardsIn(draw_pile' \o discard_pile') # {}
          /\ Len(draw_pile') + Len(discard_pile') =
                Len(draw_pile) - 7 * number_of_players
      ]_vars

\* a round after the first has been set up for ten players: 38 cards were
\* left after the deal, and the draw pile still holds a number card
SetupNeverUnderflowsWitness ==
    /\ pc = "AwaitingMove"
    /\ move = NoMove
    /\ error = "none"
    /\ current_round > 1
    /\ number_of_players = MAX_PLAYERS
    /\ Len(draw_pile) + Len(discard_pile) = 38
    /\ NumberCardsIn(draw_pile) # {}

\* C39: a Reverse takes effect before the turn passes. When the player at
\* index i plays a Reverse under the direction d and still holds cards, the
\* direction becomes -d, the next to move is the player at (i - d) mod n,
\* and no action is pending; of two players that is the other one.
ReverseBeforeAdvance ==
    [][(/\ pc = "AwaitingMove"
        /\ move'.played # None
        /\ move'.played.card_type = REV
        /\ pc' = "AwaitingMove") =>
          /\ turn_direction' = -turn_direction
          /\ current_player_index' =
                (current_player_index - turn_direction + number_of_players)
                   % number_of_players
          /\ ~play_action_card'
          /\ number_of_players = 2 =>
                current_player_index' = 1 - current_player_index
          /\ number_of_players > 2 =>
                current_player_index' #
                   (current_player_index + turn_direction) % number_of_players
      ]_vars

\* in a game of three players or more a Reverse has been played under the
\* reversed direction: play goes on in the direction +1
ReverseBeforeAdvanceWitness ==
    /\ pc = "AwaitingMove"
    /\ number_of_players >= 3
    /\ move.played # None
    /\ move.played.card_type = REV
    /\ turn_direction = 1
    /\ ~play_action_card

\* the cards the hand of the mover gains in the step (loses, when negative)
MoverGain ==
    Len(players'[Mover].cards.data) - Len(players[Mover].cards.data)

\* C40: a move changes the hand of the mover only: by 0 cards when a Skip is
\* absorbed, by +2 or +4 in a penalty draw, and in free play by -1 (a card
\* played at once), 0 (a card drawn, a card played) or +1 (a card drawn, no
\* card played); the hands of the other players and the cumulative points
\* of all players are as before the move.
MoveFrame ==
    [][pc = "AwaitingMove" =>
          /\ \A k \in 1..Len(players) :
                /\ k # Mover => players'[k] = players[k]
                /\ players'[k].points = players[k].points
                /\ players'[k].player_id = players[k].player_id
          /\ move'.branch \in {"skip", "draw2", "draw4", "play"}
          /\ move'.branch = "skip" =>
                players'[Mover].cards = players[Mover].cards
          /\ move'.branch = "draw2" => MoverGain = 2
          /\ move'.branch = "draw4" => MoverGain = 4
          /\ move'.branch = "play" =>
                /\ MoverGain \in {-1, 0, 1}
                /\ (MoverGain = -1) = (move'.drawn = 0 /\ move'.played # None)
                /\ (MoverGain = 0) = (move'.drawn = 1 /\ move'.played # None)
                /\ (MoverGain = 1) = (move'.drawn = 1 /\ move'.played = None)
      ]_vars

\* a player other than the first of the list has drawn a number card and
\* played it, and holds as many cards as before the move
MoveFrameWitness ==
    /\ pc = "AwaitingMove"
    /\ move.branch = "play"
    /\ move.drawn = 1
    /\ move.played # None
    /\ ~IsAction(move.played)
    /\ LastMover # 1

=============================================================================
